---- MODULE Spec2Model ----
(***************************************************************************)
(* Landmark importers of menpo (menpo/io/input/landmark.py): ASFImporter,  *)
(* PTSImporter, LM2Importer and LJSONImporter.                             *)
(*                                                                         *)
(* One importer object is constructed on one file; build() calls           *)
(* _parse_format, which opens the file, reads it, parses it and assigns    *)
(* self.pointcloud as its last statement, or raises.                       *)
(*                                                                         *)
(* Text files are sequences of lines; a line is the sequence of its        *)
(* whitespace-separated tokens (str.split()), a token is a string.  Lines  *)
(* are written with single spaces and no leading or trailing blanks, so a  *)
(* line and its token sequence determine each other.                       *)
(***************************************************************************)
EXTENDS Integers, Sequences, FiniteSets, TLC

VARIABLES importer, file, asset, build_points, pc, handle, landmarks,
          pointcloud, error

vars == <<importer, file, asset, build_points, pc, handle, landmarks,
          pointcloud, error>>

(***************************************************************************)
(* Bounds of the model.                                                    *)
(***************************************************************************)
\* most record lines in an ASF file
MaxRecs == 3
\* most lines in a PTS file
MaxLines == 4
\* most landmarks an LM2 file declares, and most label / coordinate lines
MaxN == 2
\* most entries in an LJSON v2 points list
MaxPts == 2
\* most entries in an LJSON v2 labels list
MaxLabels == 2
\* most groups in an LJSON v1 document
MaxGroups == 2
\* most landmarks in one LJSON v1 group
MaxGroupLms == 2

(***************************************************************************)
(* Python values.                                                          *)
(***************************************************************************)
\* an optional value: None, or Some(x)
None == [some |-> FALSE, val |-> <<>>]
Some(x) == [some |-> TRUE, val |-> x]

\* decimal tokens and the numbers int() / float() make of them; any other
\* token makes int() and float() raise ValueError
Numeral == <<"0", "1", "2", "3", "4", "5", "6", "7", "8", "9">>
IsInt(tok) == \E i \in 1..Len(Numeral) : Numeral[i] = tok
IntOf(tok) == (CHOOSE i \in 1..Len(Numeral) : Numeral[i] = tok) - 1
\* str.format of a small non-negative integer
Str(n) == Numeral[n + 1]

\* no exception, and an exception with the content its message carries
NoError == [type |-> "", content |-> <<>>]
Raise(type, content) == [type |-> type, content |-> content]

\* self.pointcloud = None
NoPointcloud == [kind |-> "None", points |-> <<>>, edges |-> <<>>,
                 labels |-> <<>>]

\* the result of a parse: an exception, or the value assigned to
\* self.pointcloud
Failed(type, content) == [error |-> Raise(type, content),
                          pointcloud |-> NoPointcloud]
Returned(pcl) == [error |-> NoError, pointcloud |-> pcl]

\* the constructors the parsers hand their results to
LandmarkGroup_init_from_edges(points, edges, labels_to_masks) ==
    [kind |-> "LandmarkGroup", points |-> points, edges |-> edges,
     labels |-> labels_to_masks]
LandmarkGroup(points, adjacency, labels_to_masks) ==
    [kind |-> "LandmarkGroup", points |-> points, edges |-> adjacency,
     labels |-> labels_to_masks]
PointCloud(points) ==
    [kind |-> "PointCloud", points |-> points, edges |-> <<>>,
     labels |-> <<>>]

\* an OrderedDict as the sequence of its [key, value] items: assigning to a
\* key already present replaces its value and keeps its place
RECURSIVE DictSet(_, _, _)
DictSet(d, k, v) ==
    IF d = <<>> THEN <<[key |-> k, value |-> v]>>
    ELSE IF Head(d).key = k THEN <<[key |-> k, value |-> v]>> \o Tail(d)
    ELSE <<Head(d)>> \o DictSet(Tail(d), k, v)

\* sequence helpers
RECURSIVE SelectLines(_)
\* [l for l in text.splitlines() if (l.rstrip() and not '#' in l)]
SelectLines(ls) ==
    IF ls = <<>> THEN <<>>
    ELSE LET l == Head(ls)
             keep == l # <<>> /\ ~(\E i \in 1..Len(l) : l[i] = "#")
         IN (IF keep THEN <<l>> ELSE <<>>) \o SelectLines(Tail(ls))

Ones(n) == [i \in 1..n |-> TRUE]

(***************************************************************************)
(* ASF.                                                                    *)
(***************************************************************************)
\* ASFPath(*tokens[:7])
ASFPath(t) == [path_num |-> t[1], path_type |-> t[2], xpos |-> t[3],
               ypos |-> t[4], point_num |-> t[5], connects_from |-> t[6],
               connects_to |-> t[7]]

\* a variant of GroupBy that gathers all records of a path_num, as grouping
\* after a sort by path_num would
RECURSIVE GroupBy_Sorted(_)
GroupBy_Sorted(recs) ==
    IF recs = <<>> THEN <<>>
    ELSE LET p == Head(recs).path_num
             same(r) == r.path_num = p
             other(r) == r.path_num # p
         IN <<SelectSeq(recs, same)>> \o GroupBy_Sorted(SelectSeq(recs, other))

\* itertools.groupby(split_landmarks, lambda x: x[0]): maximal runs of
\* consecutive records with equal path_num
RECURSIVE GroupBy(_)
GroupBy(recs) ==
    IF recs = <<>> THEN <<>>
    ELSE LET rest == GroupBy(Tail(recs))
         IN IF rest # <<>> /\ Head(rest)[1].path_num = Head(recs).path_num
            THEN <<<<Head(recs)>> \o Head(rest)>> \o Tail(rest)
            ELSE <<<<Head(recs)>>>> \o rest

\* a variant of ASFIsolated that compares with path_num where the code
\* compares with point_num
ASFIsolated_PathNum(vertex) ==
    vertex.connects_from = vertex.connects_to
    /\ vertex.connects_to = vertex.path_num

\* "if True, isolated point"
ASFIsolated(vertex) ==
    vertex.connects_from = vertex.connects_to
    /\ vertex.connects_to = vertex.point_num

\* the loop over the vertices of one path; acc holds xs, ys, connectivity
\* and the exception raised, if any
RECURSIVE ASFVertices(_, _, _)
ASFVertices(path, i, acc) ==
    IF i > Len(path) \/ acc.error # NoError THEN acc
    ELSE LET vertex == path[i] IN
         IF ~IsInt(vertex.xpos) \/ ~IsInt(vertex.ypos)
         THEN [acc EXCEPT !.error = Raise("ValueError", <<>>)]
         ELSE LET acc1 == [acc EXCEPT !.xs = Append(@, IntOf(vertex.xpos)),
                                      !.ys = Append(@, IntOf(vertex.ypos))]
              IN IF ASFIsolated(vertex) THEN ASFVertices(path, i + 1, acc1)
                 ELSE IF ~IsInt(vertex.point_num) \/ ~IsInt(vertex.connects_to)
                 THEN [acc1 EXCEPT !.error = Raise("ValueError", <<>>)]
                 ELSE ASFVertices(path, i + 1,
                        [acc1 EXCEPT !.connectivity =
                            Append(@, <<IntOf(vertex.point_num),
                                        IntOf(vertex.connects_to)>>)])

\* a variant of ASFClosePath that closes the path on the running
\* vert_index where the code closes it on the first record's point_num
ASFClosePath_VertIndex(path, acc) ==
    IF acc.error # NoError THEN acc
    ELSE IF path[1].path_type = "0"
    THEN [acc EXCEPT !.connectivity =
             Append(@, <<IntOf(path[Len(path)].point_num), Len(acc.xs)>>)]
    ELSE acc

\* the edge closing a path whose first record has path_type '0'
ASFClosePath(path, acc) ==
    IF acc.error # NoError THEN acc
    ELSE IF path[1].path_type = "0"
    THEN IF ~IsInt(path[Len(path)].point_num) \/ ~IsInt(path[1].point_num)
         THEN [acc EXCEPT !.error = Raise("ValueError", <<>>)]
         ELSE [acc EXCEPT !.connectivity =
                  Append(@, <<IntOf(path[Len(path)].point_num),
                              IntOf(path[1].point_num)>>)]
    ELSE acc

\* for path in paths: ...
RECURSIVE ASFPaths(_, _, _)
ASFPaths(paths, k, acc) ==
    IF k > Len(paths) \/ acc.error # NoError THEN acc
    ELSE ASFPaths(paths, k + 1,
                  ASFClosePath(paths[k], ASFVertices(paths[k], 1, acc)))

\* Scale(np.array(asset.shape)).apply(points)
ScaleApply(shape, points) ==
    [i \in 1..Len(points) |->
        [d \in 1..Len(points[i]) |-> points[i][d] * shape[d]]]

\* ASFImporter._parse_format after the file is read: text is the file's
\* lines
ASFParseText(text, asst) ==
    LET lms0 == SelectLines(text) IN
    IF lms0 = <<>> THEN Failed("IndexError", <<>>)
    ELSE IF ~(Len(lms0[1]) = 1 /\ IsInt(lms0[1][1]))
    THEN Failed("ValueError", lms0[1])
    ELSE LET count == IntOf(lms0[1][1])
             lms1 == Tail(lms0)
         IN
         IF lms1 = <<>> THEN Failed("IndexError", <<>>)
         ELSE LET lms == SubSeq(lms1, 1, Len(lms1) - 1) IN
              IF count > Len(lms) THEN Failed("IndexError", <<>>)
              ELSE IF \E i \in 1..count : Len(lms[i]) < 7
              THEN Failed("TypeError", <<>>)
              ELSE LET split_landmarks == [i \in 1..count |-> ASFPath(lms[i])]
                       paths == GroupBy(split_landmarks)
                       acc == ASFPaths(paths, 1,
                                  [xs |-> <<>>, ys |-> <<>>,
                                   connectivity |-> <<>>, error |-> NoError])
                   IN
                   IF acc.error # NoError
                   THEN [error |-> acc.error, pointcloud |-> NoPointcloud]
                   ELSE IF acc.connectivity = <<>>
                   THEN Failed("ValueError", <<>>)
                   ELSE LET points0 == [i \in 1..count |->
                                           <<acc.ys[i], acc.xs[i]>>]
                            points == IF asst.some
                                      THEN ScaleApply(asst.val, points0)
                                      ELSE points0
                            labels_to_masks ==
                                <<[key |-> "all", value |-> Ones(Len(points))]>>
                        IN Returned(LandmarkGroup_init_from_edges(
                                        points, acc.connectivity,
                                        labels_to_masks))

\* the ASF files of the model: a comment line, a blank line, the count line,
\* record lines of ten fields and the image name.  Point numbers are
\* consecutive from base; an isolated record names itself in connects_from
\* and connects_to, a "fwd" record connects to the next point number.
ASFConn == {"iso", "fwd"}
ASFRecordSpecs == [path_num : {"0", "1"}, path_type : {"0", "4"},
                   conn : ASFConn]
ASFRecordLine(r, i, base) ==
    <<r.path_num, r.path_type, Str(2 * i), Str(2 * i + 1), Str(base + i),
      Str(base + i),
      IF r.conn = "iso" THEN Str(base + i) ELSE Str(base + i + 1),
      "0", "0", "0">>
ASFFileText(count, base, rs) ==
    <<<<"#", "comment">>, <<>>, <<Str(count)>>>>
    \o [i \in 1..Len(rs) |-> ASFRecordLine(rs[i], i - 1, base)]
    \o <<<<"img.png">>>>
ASFFiles ==
    { ASFFileText(count, base, rs) :
        count \in 0..MaxRecs, base \in {0, 1},
        rs \in UNION { [1..k -> ASFRecordSpecs] : k \in 0..MaxRecs } }
ASFAssets == {None, Some(<<2, 3>>)}

InitASF ==
    /\ importer = "ASF"
    /\ file \in ASFFiles
    /\ asset \in ASFAssets
    /\ build_points = "none"
    /\ pc = "start"
    /\ handle = "unopened"
    /\ landmarks = <<>>
    /\ pointcloud = NoPointcloud
    /\ error = NoError

\* with open(self.filepath, 'r') as f:
ASFOpen ==
    /\ importer = "ASF" /\ pc = "start"
    /\ handle' = "open"
    /\ pc' = "opened"
    /\ UNCHANGED <<importer, file, asset, build_points, landmarks,
                   pointcloud, error>>

\* landmarks = f.read(), and the with block closes f
ASFRead ==
    /\ importer = "ASF" /\ pc = "opened"
    /\ landmarks' = file
    /\ handle' = "closed"
    /\ pc' = "read"
    /\ UNCHANGED <<importer, file, asset, build_points, pointcloud, error>>

\* the rest of _parse_format, ending in the assignment of self.pointcloud
ASFParse ==
    /\ importer = "ASF" /\ pc = "read"
    /\ LET r == ASFParseText(landmarks, asset)
       IN /\ error' = r.error
          /\ pointcloud' = r.pointcloud
          /\ pc' = IF r.error = NoError THEN "done" ELSE "raised"
    /\ UNCHANGED <<importer, file, asset, build_points, handle, landmarks>>

(***************************************************************************)
(* PTS.                                                                    *)
(***************************************************************************)
\* for line in f: if line.split()[0] == '{': break
\* the number of lines the first loop consumes, or 0 when a blank line makes
\* line.split()[0] raise IndexError
RECURSIVE PTSSkipHeader(_, _)
PTSSkipHeader(lines, i) ==
    IF i > Len(lines) THEN Len(lines)
    ELSE IF lines[i] = <<>> THEN 0
    ELSE IF lines[i][1] = "{" THEN i
    ELSE PTSSkipHeader(lines, i + 1)

\* for line in f: if line.split()[0] != '}': xpos, ypos = line.split()[0:2]
\* over the lines the first loop left; acc holds xs, ys and the exception
RECURSIVE PTSCollect(_, _, _)
PTSCollect(lines, i, acc) ==
    IF i > Len(lines) \/ acc.error # NoError THEN acc
    ELSE LET line == lines[i] IN
         IF line = <<>>
         THEN [acc EXCEPT !.error = Raise("IndexError", <<>>)]
         ELSE IF line[1] # "}"
         THEN IF Len(line) < 2
              THEN [acc EXCEPT !.error = Raise("ValueError", line)]
              ELSE PTSCollect(lines, i + 1,
                      [acc EXCEPT !.xs = Append(@, line[1]),
                                  !.ys = Append(@, line[2])])
         ELSE PTSCollect(lines, i + 1, acc)

\* np.array(xs, dtype=np.float) succeeds
AllFloats(toks) == \A i \in 1..Len(toks) : IsInt(toks[i])
Floats(toks) == [i \in 1..Len(toks) |-> IntOf(toks[i])]

\* _build_points as the concrete importers override it: image importers put
\* y first, mesh importers x first
BuildPointsOverride(policy, xs, ys) ==
    [i \in 1..Len(xs) |->
        IF policy = "image" THEN <<ys[i], xs[i]>> ELSE <<xs[i], ys[i]>>]

\* PTSImporter._parse_format on the lines of the open file
PTSParseLines(lines, policy) ==
    LET k == PTSSkipHeader(lines, 1) IN
    IF k = 0 /\ lines # <<>> THEN Failed("IndexError", <<>>)
    ELSE LET acc == PTSCollect(lines, k + 1,
                        [xs |-> <<>>, ys |-> <<>>, error |-> NoError])
         IN
         IF acc.error # NoError
         THEN [error |-> acc.error, pointcloud |-> NoPointcloud]
         ELSE IF ~AllFloats(acc.xs) \/ ~AllFloats(acc.ys)
         THEN Failed("ValueError", <<>>)
         ELSE LET xs == [i \in 1..Len(acc.xs) |-> Floats(acc.xs)[i] - 1]
                  ys == [i \in 1..Len(acc.ys) |-> Floats(acc.ys)[i] - 1]
              IN Returned(PointCloud(BuildPointsOverride(policy, xs, ys)))

\* the PTS files of the model
PTSLineKinds == {<<>>, <<"{">>, <<"}">>, <<"version:", "1">>,
                 <<"1", "2">>, <<"3", "4", "9">>, <<"5">>}
PTSFiles == UNION { [1..k -> PTSLineKinds] : k \in 0..MaxLines }
PTSPolicies == {"image", "mesh"}

InitPTS ==
    /\ importer = "PTS"
    /\ file \in PTSFiles
    /\ asset = None
    /\ build_points \in PTSPolicies
    /\ pc = "start"
    /\ handle = "unopened"
    /\ landmarks = <<>>
    /\ pointcloud = NoPointcloud
    /\ error = NoError

\* f = open(self.filepath, 'r')
PTSOpen ==
    /\ importer = "PTS" /\ pc = "start"
    /\ handle' = "open"
    /\ pc' = "opened"
    /\ UNCHANGED <<importer, file, asset, build_points, landmarks,
                   pointcloud, error>>

\* what becomes of f when _parse_format ends: no statement closes it.  When
\* the call raises, the traceback keeps the frame and f stays open; when it
\* returns, a reference-counting runtime finalises f at once and any other
\* runtime leaves it open until a collection.
PTSHandleAtExit(raised) == IF raised THEN {"open"} ELSE {"open", "closed"}

\* the two loops over f and the rest of _parse_format
PTSParse ==
    /\ importer = "PTS" /\ pc = "opened"
    /\ LET r == PTSParseLines(file, build_points)
       IN /\ error' = r.error
          /\ pointcloud' = r.pointcloud
          /\ pc' = IF r.error = NoError THEN "done" ELSE "raised"
          /\ handle' \in PTSHandleAtExit(r.error # NoError)
    /\ UNCHANGED <<importer, file, asset, build_points, landmarks>>

(***************************************************************************)
(* LM2.                                                                    *)
(***************************************************************************)
\* str.lower() of a token
Lower(tok) ==
    CASE tok = "Nose" -> "nose"
      [] tok = "Tip" -> "tip"
      [] tok = "Chin" -> "chin"
      [] tok = "2D" -> "2d"
      [] tok = "Image" -> "image"
      [] tok = "Labels:" -> "labels:"
      [] OTHER -> tok

\* '_'.join(words)
Join(words) ==
    CASE words = <<"nose", "tip">> -> "nose_tip"
      [] words = <<"2d", "image", "coordinates:">> -> "2d_image_coordinates:"
      [] words = <<"2d", "image", "coords:">> -> "2d_image_coords:"
      [] words = <<"1", "2">> -> "1_2"
      [] words = <<"3", "4">> -> "3_4"
      [] Len(words) = 1 -> words[1]

\* l = '_'.join(l.lower().split())
LM2Label(line) == Join([i \in 1..Len(line) |-> Lower(line[i])])

\* np.vsplit(np.eye(num_points).astype(np.bool), num_points), squeezed: row i
\* of the identity matrix
LM2Masks(num_points) ==
    [i \in 1..num_points |-> [j \in 1..num_points |-> j = i]]

\* OrderedDict(zip(labels, masks))
RECURSIVE DictOfZip(_, _, _)
DictOfZip(keys, values, i) ==
    IF i = 0 THEN <<>>
    ELSE DictSet(DictOfZip(keys, values, i - 1), keys[i], values[i])

\* the coordinate loop: p = landmark_text.pop(0).split(); float(p[0]);
\* float(p[1])
RECURSIVE LM2Coords(_, _, _)
LM2Coords(lines, i, acc) ==
    IF i > Len(lines) \/ acc.error # NoError THEN acc
    ELSE LET p == lines[i] IN
         IF ~IsInt(p[1])
         THEN [acc EXCEPT !.error = Raise("ValueError", <<>>)]
         ELSE IF Len(p) < 2
         THEN [acc EXCEPT !.error = Raise("IndexError", <<>>)]
         ELSE IF ~IsInt(p[2])
         THEN [acc EXCEPT !.error = Raise("ValueError", <<>>)]
         ELSE LM2Coords(lines, i + 1,
                 [acc EXCEPT !.xs = Append(@, IntOf(p[1])),
                             !.ys = Append(@, IntOf(p[2]))])

\* LM2Importer._parse_format after the file is read
LM2ParseText(text) ==
    LET landmark_text == SelectLines(text) IN
    IF landmark_text = <<>> THEN Failed("IndexError", <<>>)
    ELSE IF ~IsInt(landmark_text[1][1]) THEN Failed("ValueError", <<>>)
    ELSE LET num_points == IntOf(landmark_text[1][1])
             n == Len(landmark_text)
         IN
         IF n < 2 THEN Failed("IndexError", <<>>)
         ELSE IF landmark_text[2] # <<"Labels:">>
         THEN Failed("ValueError", landmark_text[2])
         ELSE IF n < 2 + num_points THEN Failed("IndexError", <<>>)
         ELSE LET labels == [i \in 1..num_points |->
                                LM2Label(landmark_text[2 + i])]
              IN
              IF n < 3 + num_points THEN Failed("IndexError", <<>>)
              ELSE IF landmark_text[3 + num_points]
                        # <<"2D", "Image", "coordinates:">>
              THEN Failed("ValueError", landmark_text[3 + num_points])
              ELSE LET avail == IF n - (3 + num_points) < num_points
                                THEN n - (3 + num_points) ELSE num_points
                       acc == LM2Coords(
                                SubSeq(landmark_text, 4 + num_points,
                                       3 + num_points + avail),
                                1, [xs |-> <<>>, ys |-> <<>>,
                                    error |-> NoError])
                   IN
                   IF acc.error # NoError
                   THEN [error |-> acc.error, pointcloud |-> NoPointcloud]
                   ELSE IF avail < num_points
                   THEN Failed("IndexError", <<>>)
                   ELSE IF num_points = 0
                   THEN Failed("ZeroDivisionError", <<>>)
                   ELSE LET points == [i \in 1..num_points |->
                                          <<acc.ys[i], acc.xs[i]>>]
                            masks == LM2Masks(num_points)
                        IN Returned(LandmarkGroup(points, <<>>,
                               DictOfZip(labels, masks, num_points)))

\* the LM2 files of the model
LM2LabelLines == {<<"Nose", "Tip">>, <<"nose", "tip">>, <<"Chin">>}
LM2CoordLines == {<<"1", "2">>, <<"3", "4">>}
LM2LabelMarkers == {<<"Labels:">>, <<"labels:">>}
LM2CoordMarkers == {<<"2D", "Image", "coordinates:">>,
                    <<"2D", "Image", "coords:">>}
LM2FileText(n, m1, ls, m2, cs) ==
    <<<<"#", "Bosphorus">>, <<Str(n), "landmarks">>, m1>> \o ls \o <<m2>>
    \o cs
LM2Files ==
    { LM2FileText(n, m1, ls, m2, cs) :
        n \in 0..MaxN, m1 \in LM2LabelMarkers, m2 \in LM2CoordMarkers,
        ls \in UNION { [1..k -> LM2LabelLines] : k \in 0..MaxN },
        cs \in UNION { [1..k -> LM2CoordLines] : k \in 0..MaxN } }

InitLM2 ==
    /\ importer = "LM2"
    /\ file \in LM2Files
    /\ asset = None
    /\ build_points = "none"
    /\ pc = "start"
    /\ handle = "unopened"
    /\ landmarks = <<>>
    /\ pointcloud = NoPointcloud
    /\ error = NoError

\* with open(self.filepath, 'r') as f:
LM2Open ==
    /\ importer = "LM2" /\ pc = "start"
    /\ handle' = "open"
    /\ pc' = "opened"
    /\ UNCHANGED <<importer, file, asset, build_points, landmarks,
                   pointcloud, error>>

\* landmarks = f.read(), and the with block closes f
LM2Read ==
    /\ importer = "LM2" /\ pc = "opened"
    /\ landmarks' = file
    /\ handle' = "closed"
    /\ pc' = "read"
    /\ UNCHANGED <<importer, file, asset, build_points, pointcloud, error>>

\* the rest of _parse_format, ending in the assignment of self.pointcloud
LM2Parse ==
    /\ importer = "LM2" /\ pc = "read"
    /\ LET r == LM2ParseText(landmarks)
       IN /\ error' = r.error
          /\ pointcloud' = r.pointcloud
          /\ pc' = IF r.error = NoError THEN "done" ELSE "raised"
    /\ UNCHANGED <<importer, file, asset, build_points, handle, landmarks>>

(***************************************************************************)
(* LJSON.                                                                  *)
(***************************************************************************)
LJSONFilepath == "lms.ljson"

\* a JSON coordinate: a number or null; an array entry: a float or nan
JNum(n) == [null |-> FALSE, num |-> n]
JNull == [null |-> TRUE, num |-> 0]
Float(n) == [nan |-> FALSE, num |-> n]
NaN == [nan |-> TRUE, num |-> 0]

\* chain(*points_list): a point is None (JSON null) or Some(coordinates)
RECURSIVE Chain(_)
Chain(points_list) ==
    IF points_list = <<>> THEN <<>>
    ELSE Head(points_list).val \o Chain(Tail(points_list))

\* ndarray.reshape([-1, dim]) of a flat array whose size dim divides
Reshape(flat, dim) ==
    [i \in 1..(Len(flat) \div dim) |->
        [d \in 1..dim |-> flat[(i - 1) * dim + d]]]

\* a variant of NullToNan that fills a missing coordinate with zero
NullToNan_Zero(x) == IF x.null THEN Float(0) ELSE Float(x.num)

\* np.nan if x is None else x
NullToNan(x) == IF x.null THEN NaN ELSE Float(x.num)

\* _ljson_parse_null_values: [error, points]
ljson_parse_null_values(points_list) ==
    IF \E i \in 1..Len(points_list) : ~points_list[i].some
    THEN [error |-> Raise("TypeError", <<>>), points |-> <<>>]
    ELSE LET flat == Chain(points_list)
             filtered_points == [i \in 1..Len(flat) |-> NullToNan(flat[i])]
         IN IF points_list = <<>>
            THEN [error |-> Raise("IndexError", <<>>), points |-> <<>>]
            ELSE LET dim == Len(points_list[1].val) IN
                 IF dim = 0 \/ Len(flat) % dim # 0
                 THEN [error |-> Raise("ValueError", <<>>), points |-> <<>>]
                 ELSE [error |-> NoError,
                       points |-> Reshape(filtered_points, dim)]

\* a variant of OffsetConn that leaves the group's indices local
OffsetConn_Local(offset, conn) ==
    [i \in 1..Len(conn) |-> <<conn[i][1], conn[i][2]>>]

\* conn = offset + np.asarray(conn); conn.tolist()
OffsetConn(offset, conn) ==
    [i \in 1..Len(conn) |-> <<offset + conn[i][1], offset + conn[i][2]>>]

\* the loop over lms_dict['groups']; acc holds all_points, labels,
\* labels_slices, offset and connectivity
RECURSIVE LJSONv1Groups(_, _, _)
LJSONv1Groups(groups, g, acc) ==
    IF g > Len(groups) THEN acc
    ELSE LET group == groups[g]
             lms == group.landmarks
             conn == IF group.connectivity.some
                     THEN group.connectivity.val ELSE <<>>
         IN LJSONv1Groups(groups, g + 1,
              [labels |-> Append(acc.labels, group.label),
               labels_slices |-> Append(acc.labels_slices,
                                   <<acc.offset, Len(lms) + acc.offset>>),
               connectivity |-> IF conn # <<>>
                                THEN acc.connectivity
                                     \o OffsetConn(acc.offset, conn)
                                ELSE acc.connectivity,
               all_points |-> acc.all_points
                              \o [j \in 1..Len(lms) |-> lms[j].point],
               offset |-> acc.offset + Len(lms)])

\* a variant of SliceMask whose slice includes its stop index
SliceMask_Inclusive(n_points, l_slice) ==
    [i \in 1..n_points |-> l_slice[1] <= i - 1 /\ i - 1 <= l_slice[2]]

\* mask = np.zeros(n_points); mask[l_slice] = True: a slice is clipped to
\* the array
SliceMask(n_points, l_slice) ==
    [i \in 1..n_points |-> l_slice[1] <= i - 1 /\ i - 1 < l_slice[2]]

\* for label, l_slice in zip(labels, labels_slices): labels_to_masks[label]
RECURSIVE LJSONv1Masks(_, _, _, _)
LJSONv1Masks(labels, labels_slices, n_points, i) ==
    IF i = 0 THEN <<>>
    ELSE DictSet(LJSONv1Masks(labels, labels_slices, n_points, i - 1),
                 labels[i], SliceMask(n_points, labels_slices[i]))

\* _parse_ljson_v1
parse_ljson_v1(lms_dict) ==
    LET acc == LJSONv1Groups(lms_dict.groups, 1,
                   [labels |-> <<>>, labels_slices |-> <<>>,
                    connectivity |-> <<>>, all_points |-> <<>>,
                    offset |-> 0])
        parsed == ljson_parse_null_values(acc.all_points)
    IN IF parsed.error # NoError
       THEN [error |-> parsed.error, pointcloud |-> NoPointcloud]
       ELSE LET n_points == Len(parsed.points)
            IN Returned(LandmarkGroup_init_from_edges(
                   parsed.points, acc.connectivity,
                   LJSONv1Masks(acc.labels, acc.labels_slices, n_points,
                                Len(acc.labels))))

\* mask = np.zeros(n_points); mask[label['mask']] = True
IndexMask(n_points, indices) ==
    [i \in 1..n_points |-> \E k \in 1..Len(indices) : indices[k] = i - 1]

\* for label in lms_dict['labels']: labels_to_mask[label['label']] = mask
RECURSIVE LJSONv2Masks(_, _, _)
LJSONv2Masks(labels, n_points, i) ==
    IF i = 0 THEN <<>>
    ELSE DictSet(LJSONv2Masks(labels, n_points, i - 1),
                 labels[i].label, IndexMask(n_points, labels[i].mask))

\* _parse_ljson_v2
parse_ljson_v2(lms_dict) ==
    LET parsed == ljson_parse_null_values(lms_dict.landmarks.points) IN
    IF parsed.error # NoError
    THEN [error |-> parsed.error, pointcloud |-> NoPointcloud]
    ELSE LET n_points == Len(parsed.points)
             connectivity == lms_dict.landmarks.connectivity
             labels == lms_dict.labels
         IN IF \E i \in 1..Len(labels) : \E k \in 1..Len(labels[i].mask) :
                   labels[i].mask[k] >= n_points
            THEN Failed("IndexError", <<>>)
            ELSE Returned(LandmarkGroup_init_from_edges(
                     parsed.points, connectivity,
                     LJSONv2Masks(labels, n_points, Len(labels))))

\* str.format of lms_dict.get('version')
VersionStr(v) == IF v.some THEN Str(v.val) ELSE "None"

\* a variant of LJSONDispatch that parses a document of unknown version as
\* the current version
LJSONDispatch_DefaultV2(lms_dict) ==
    IF lms_dict.version = Some(1) THEN parse_ljson_v1(lms_dict)
    ELSE parse_ljson_v2(lms_dict)

\* LJSONImporter._parse_format after json.load
LJSONDispatch(lms_dict) ==
    LET v == lms_dict.version IN
    IF v = Some(1) THEN parse_ljson_v1(lms_dict)
    ELSE IF v = Some(2) THEN parse_ljson_v2(lms_dict)
    ELSE Failed("ValueError", <<LJSONFilepath, VersionStr(v)>>)

\* the LJSON documents of the model.  wellformed is whether the file's text
\* is JSON at all.
LJSONDoc(wellformed, version, groups, points, connectivity, labels) ==
    [wellformed |-> wellformed, version |-> version, groups |-> groups,
     landmarks |-> [points |-> points, connectivity |-> connectivity],
     labels |-> labels]
LJSONLabelNames == {"a", "b"}
LJSONConns == {None, Some(<<<<0, 1>>>>)}
LJSONPoints == {None, Some(<<JNum(1), JNum(2)>>),
                Some(<<JNull, JNull>>), Some(<<JNum(5)>>)}
LJSONMaskLists == {<<>>, <<0>>, <<1>>, <<0, 1>>}
LJSONv2Docs ==
    { LJSONDoc(TRUE, Some(2), <<>>, ps, c, ls) :
        ps \in UNION { [1..k -> LJSONPoints] : k \in 0..MaxPts },
        c \in LJSONConns,
        ls \in UNION { [1..k -> [label : LJSONLabelNames,
                                 mask : LJSONMaskLists]] :
                       k \in 0..MaxLabels } }
\* a v1 group of n landmarks; its landmark j has the point [g, j], or
\* [null, null] for the first landmark of a group with nulls
LJSONGroupSpecs == [label : LJSONLabelNames, n : 0..MaxGroupLms,
                    nulls : BOOLEAN, connectivity : LJSONConns]
LJSONGroup(gs, g) ==
    [label |-> gs.label,
     landmarks |-> [j \in 1..gs.n |->
                      [point |-> IF gs.nulls /\ j = 1
                                 THEN Some(<<JNull, JNull>>)
                                 ELSE Some(<<JNum(g), JNum(j)>>)]],
     connectivity |-> gs.connectivity]
LJSONv1Docs ==
    { LJSONDoc(TRUE, Some(1), [g \in 1..Len(gss) |-> LJSONGroup(gss[g], g)],
               <<>>, None, <<>>) :
        gss \in UNION { [1..k -> LJSONGroupSpecs] : k \in 0..MaxGroups } }
LJSONOtherDocs ==
    { LJSONDoc(TRUE, v, <<>>, <<Some(<<JNum(1), JNum(2)>>)>>, None,
               <<[label |-> "a", mask |-> <<0>>]>>) : v \in {None, Some(3)} }
    \cup { LJSONDoc(FALSE, None, <<>>, <<>>, None, <<>>) }
LJSONFiles == LJSONv1Docs \cup LJSONv2Docs \cup LJSONOtherDocs

InitLJSON ==
    /\ importer = "LJSON"
    /\ file \in LJSONFiles
    /\ asset = None
    /\ build_points = "none"
    /\ pc = "start"
    /\ handle = "unopened"
    /\ landmarks = <<>>
    /\ pointcloud = NoPointcloud
    /\ error = NoError

\* with open(self.filepath, 'r') as f:
LJSONOpen ==
    /\ importer = "LJSON" /\ pc = "start"
    /\ handle' = "open"
    /\ pc' = "opened"
    /\ UNCHANGED <<importer, file, asset, build_points, landmarks,
                   pointcloud, error>>

\* lms_dict = json.load(f, ...): the with block closes f whether json.load
\* returns or raises
LJSONLoad ==
    /\ importer = "LJSON" /\ pc = "opened"
    /\ handle' = "closed"
    /\ IF file.wellformed
       THEN /\ landmarks' = file
            /\ pc' = "read"
            /\ error' = error
       ELSE /\ landmarks' = landmarks
            /\ pc' = "raised"
            /\ error' = Raise("ValueError", <<>>)
    /\ UNCHANGED <<importer, file, asset, build_points, pointcloud>>

\* the version dispatch, the parser and the assignment of self.pointcloud
LJSONParse ==
    /\ importer = "LJSON" /\ pc = "read"
    /\ LET r == LJSONDispatch(landmarks)
       IN /\ error' = r.error
          /\ pointcloud' = r.pointcloud
          /\ pc' = IF r.error = NoError THEN "done" ELSE "raised"
    /\ UNCHANGED <<importer, file, asset, build_points, handle, landmarks>>

Init == InitASF \/ InitPTS \/ InitLM2 \/ InitLJSON

Next ==
    \/ ASFOpen \/ ASFRead \/ ASFParse
    \/ PTSOpen \/ PTSParse
    \/ LM2Open \/ LM2Read \/ LM2Parse
    \/ LJSONOpen \/ LJSONLoad \/ LJSONParse

Spec == Init /\ [][Next]_vars

(***************************************************************************)
(* Properties.                                                             *)
(***************************************************************************)
Terminated == pc \in {"done", "raised"}

\* concatenation of f[1], ..., f[n]
RECURSIVE Concat(_, _)
Concat(f, n) == IF n = 0 THEN <<>> ELSE Concat(f, n - 1) \o f[n]

\* number of TRUE entries of a mask
RECURSIVE CountTrue(_)
CountTrue(m) ==
    IF m = <<>> THEN 0 ELSE (IF Head(m) THEN 1 ELSE 0) + CountTrue(Tail(m))

(* ASF: what a file says, read off its lines *)
ASFBody == SelectLines(file)
ASFHasCount == ASFBody # <<>> /\ Len(ASFBody[1]) = 1 /\ IsInt(ASFBody[1][1])
ASFCount == IntOf(ASFBody[1][1])
\* the count line is followed by at least count records and the image name
ASFWellFormed ==
    /\ ASFHasCount
    /\ Len(ASFBody) >= ASFCount + 2
    /\ \A i \in 1..ASFCount : Len(ASFBody[1 + i]) >= 7
ASFRec(i) == ASFBody[1 + i]
RecPathNum(i) == ASFRec(i)[1]
RecPathType(i) == ASFRec(i)[2]
RecX(i) == IntOf(ASFRec(i)[3])
RecY(i) == IntOf(ASFRec(i)[4])
RecPointNum(i) == IntOf(ASFRec(i)[5])
RecConnectsTo(i) == IntOf(ASFRec(i)[7])
RecIsolated(i) == ASFRec(i)[6] = ASFRec(i)[7] /\ ASFRec(i)[7] = ASFRec(i)[5]
\* a valid file numbers and connects only points it declares
ASFValid ==
    /\ ASFWellFormed
    /\ \A i \in 1..ASFCount :
          /\ RecPointNum(i) \in 0..(ASFCount - 1)
          /\ RecConnectsTo(i) \in 0..(ASFCount - 1)
\* record i starts / ends a maximal run of consecutive equal path_num
GroupStartsAt(i) == i = 1 \/ RecPathNum(i - 1) # RecPathNum(i)
GroupEndsAt(i) == i = ASFCount \/ RecPathNum(i + 1) # RecPathNum(i)
GroupStartOf(i) ==
    CHOOSE s \in 1..i :
        /\ GroupStartsAt(s)
        /\ \A t \in (s + 1)..i : ~GroupStartsAt(t)
GroupClosed(i) == RecPathType(GroupStartOf(i)) = "0"
ClosingEdge(i) == <<RecPointNum(i), RecPointNum(GroupStartOf(i))>>
\* the edges record i accounts for: its own, then the closing edge of the
\* group it ends
EdgesAt(i) ==
    (IF RecIsolated(i) THEN <<>>
     ELSE <<<<RecPointNum(i), RecConnectsTo(i)>>>>)
    \o (IF GroupEndsAt(i) /\ GroupClosed(i) THEN <<ClosingEdge(i)>>
        ELSE <<>>)
ExpectedEdges == Concat([i \in 1..ASFCount |-> EdgesAt(i)], ASFCount)
ExpectedPointsYX ==
    [i \in 1..ASFCount |->
        IF asset.some THEN <<RecY(i) * asset.val[1], RecX(i) * asset.val[2]>>
        ELSE <<RecY(i), RecX(i)>>]

\* C1: for a valid ASF file declaring count on its first non-comment line,
\* the result has exactly count points and both endpoints of every emitted
\* edge lie in 0..count-1.
C1_ASFCountAndEdgeRange ==
    (importer = "ASF" /\ pc = "done" /\ ASFValid) =>
        /\ Len(pointcloud.points) = ASFCount
        /\ \A e \in 1..Len(pointcloud.edges) :
              /\ pointcloud.edges[e][1] \in 0..(ASFCount - 1)
              /\ pointcloud.edges[e][2] \in 0..(ASFCount - 1)
\* a valid three-point file parsed to per-record and loop-closing edges
C1_Witness ==
    /\ importer = "ASF" /\ pc = "done" /\ ASFValid
    /\ ASFCount = 3
    /\ \E i \in 1..3 : ~RecIsolated(i)
    /\ \E i \in 1..3 : GroupEndsAt(i) /\ GroupClosed(i)
    /\ Len(pointcloud.edges) >= 3

ASFAllIsolated == ASFWellFormed /\ \A i \in 1..ASFCount : RecIsolated(i)

\* C2 as claimed, in the case it singles out: a file of isolated points
\* only, all of path_type '0', parses to an empty edge list, points (y, x) in
\* record order and the single all-true label 'all'.
C2_IsolatedGiveNoEdges ==
    (/\ importer = "ASF" /\ Terminated /\ ASFAllIsolated /\ ASFCount >= 1
     /\ \A i \in 1..ASFCount : RecPathType(i) = "0") =>
        /\ pc = "done"
        /\ pointcloud.edges = <<>>
        /\ pointcloud.points = ExpectedPointsYX
        /\ pointcloud.labels = <<[key |-> "all", value |-> Ones(ASFCount)]>>
\* C2 amended: a file of isolated points only has as its edges exactly the
\* loop-closing edges (last point_num, first point_num) of the groups whose
\* path_type is '0', in group order, with points (y, x) in record order
\* (times the asset's shape when an asset is given) and the single all-true
\* label 'all'; when no group has path_type '0' there is no edge at all and
\* the parse raises ValueError instead of returning an empty edge list.
C2_IsolatedGiveClosingEdgesOnly ==
    (importer = "ASF" /\ Terminated /\ ASFAllIsolated) =>
        IF \E i \in 1..ASFCount : GroupClosed(i)
        THEN /\ pc = "done"
             /\ pointcloud.edges =
                   Concat([i \in 1..ASFCount |->
                              IF GroupEndsAt(i) /\ GroupClosed(i)
                              THEN <<ClosingEdge(i)>> ELSE <<>>], ASFCount)
             /\ pointcloud.points = ExpectedPointsYX
             /\ pointcloud.labels =
                   <<[key |-> "all", value |-> Ones(ASFCount)]>>
        ELSE /\ pc = "raised"
             /\ error.type = "ValueError"
             /\ pointcloud = NoPointcloud
\* the spec's scenario: two isolated records of one path of type '0'
C2_Witness ==
    /\ importer = "ASF" /\ pc = "done" /\ ASFAllIsolated
    /\ ASFCount = 2 /\ asset = None
    /\ RecPathNum(1) = RecPathNum(2)
    /\ RecPathType(1) = "0" /\ RecPathType(2) = "0"
    /\ RecPointNum(1) = 0 /\ RecPointNum(2) = 1
    /\ pointcloud.edges = <<<<1, 0>>>>

\* C10: the edges are, record by record in file order, the record's own
\* edge (unless it is isolated) followed, when the record ends a maximal
\* run of equal path_num whose first record has path_type '0', by exactly
\* one closing edge (point_num of the run's last record, point_num of its
\* first); runs are contiguous, so a recurring path_num forms a new run.
C10_ASFLoopClosing ==
    (importer = "ASF" /\ pc = "done") => pointcloud.edges = ExpectedEdges
\* path_num 0, 1, 0: three groups, the first and the last closed
C10_Witness ==
    /\ importer = "ASF" /\ pc = "done"
    /\ ASFCount = 3
    /\ RecPathNum(1) = "0" /\ RecPathNum(2) = "1" /\ RecPathNum(3) = "0"
    /\ RecPathType(1) = "0" /\ RecPathType(2) = "4" /\ RecPathType(3) = "0"
    /\ ~RecIsolated(1) /\ ~RecIsolated(2)
    /\ Len(pointcloud.edges) = 4

(* PTS: the block of a file that has both braces *)
PTSFirstToken(i) == file[i][1]
PTSHasBlock ==
    \E i \in 1..Len(file) : \E j \in (i + 1)..Len(file) :
        PTSFirstToken(i) = "{" /\ PTSFirstToken(j) = "}"
PTSBlockOpen ==
    CHOOSE i \in 1..Len(file) :
        PTSFirstToken(i) = "{" /\ \A h \in 1..(i - 1) : PTSFirstToken(h) # "{"
PTSBlockClose ==
    CHOOSE j \in (PTSBlockOpen + 1)..Len(file) :
        /\ PTSFirstToken(j) = "}"
        /\ \A h \in (PTSBlockOpen + 1)..(j - 1) : PTSFirstToken(h) # "}"
PTSBlockLine(m) == file[PTSBlockOpen + m]
PTSExpectedPoint(m) ==
    LET x == IntOf(PTSBlockLine(m)[1]) - 1
        y == IntOf(PTSBlockLine(m)[2]) - 1
    IN IF build_points = "image" THEN <<y, x>> ELSE <<x, y>>

\* C3: a PTS file whose { ... } block holds M coordinate lines gives exactly
\* M points, each the file's value minus 1; lines before '{' or after the
\* first '}' contribute no point.
C3_PTSBlockOnly ==
    (importer = "PTS" /\ pc = "done" /\ PTSHasBlock) =>
        /\ Len(pointcloud.points) = PTSBlockClose - PTSBlockOpen - 1
        /\ \A m \in 1..Len(pointcloud.points) :
              m <= PTSBlockClose - PTSBlockOpen - 1
              => pointcloud.points[m] = PTSExpectedPoint(m)

(* LM2 *)
LM2Declared == IntOf(SelectLines(file)[1][1])

\* C4: an LM2 file declaring N points gives exactly N labels, each mask with
\* exactly one true entry, the masks pairwise disjoint and together covering
\* all N points, also when label lines normalise to the same key.
C4_LM2IdentityPartition ==
    (importer = "LM2" /\ pc = "done") =>
        LET ls == pointcloud.labels IN
        /\ Len(ls) = LM2Declared
        /\ \A a \in 1..Len(ls) :
              Len(ls[a].value) = LM2Declared /\ CountTrue(ls[a].value) = 1
        /\ \A a, b \in 1..Len(ls) : \A i \in 1..LM2Declared :
              a # b => ~(ls[a].value[i] /\ ls[b].value[i])
        /\ \A i \in 1..LM2Declared : \E a \in 1..Len(ls) : ls[a].value[i]

(* LJSON: what a document says *)
LJSONVersioned(v) ==
    importer = "LJSON" /\ file.wellformed /\ file.version = Some(v)
LJSONGroupLen(g) == Len(file.groups[g].landmarks)
RECURSIVE LJSONGroupOffset(_)
\* the number of landmarks in the groups before group g
LJSONGroupOffset(g) ==
    IF g = 1 THEN 0 ELSE LJSONGroupOffset(g - 1) + LJSONGroupLen(g - 1)
\* the points of the document, in order
LJSONPointsList ==
    IF file.version = Some(2) THEN file.landmarks.points
    ELSE Concat([g \in 1..Len(file.groups) |->
                    [j \in 1..LJSONGroupLen(g) |->
                        file.groups[g].landmarks[j].point]],
                Len(file.groups))
LJSONHasNullPoint ==
    \E k \in 1..Len(LJSONPointsList) : ~LJSONPointsList[k].some
\* every point is a list, and all lists have the same positive length
LJSONUniform ==
    /\ LJSONPointsList # <<>>
    /\ \A k \in 1..Len(LJSONPointsList) :
          /\ LJSONPointsList[k].some
          /\ Len(LJSONPointsList[k].val) = Len(LJSONPointsList[1].val)
          /\ Len(LJSONPointsList[k].val) > 0
\* every index a v2 label lists is the index of a point
LJSONMasksInRange ==
    \A a \in 1..Len(file.labels) : \A k \in 1..Len(file.labels[a].mask) :
        file.labels[a].mask[k] < Len(LJSONPointsList)
AllNaN(point) == \A d \in 1..Len(point) : point[d] = NaN

\* C5 as claimed: a points list with a JSON null as its entry k (the other
\* entries being lists of two numbers) parses, the number and order of
\* points are kept, point k is nan in every coordinate and every other point
\* keeps its values.
C5_NullPointBecomesNaN ==
    (/\ (LJSONVersioned(1) \/ LJSONVersioned(2)) /\ Terminated
     /\ LJSONHasNullPoint /\ LJSONMasksInRange
     /\ \A k \in 1..Len(LJSONPointsList) :
           LJSONPointsList[k].some =>
              /\ Len(LJSONPointsList[k].val) = 2
              /\ \A d \in 1..2 : ~LJSONPointsList[k].val[d].null) =>
        /\ pc = "done"
        /\ Len(pointcloud.points) = Len(LJSONPointsList)
        /\ \A k \in 1..Len(LJSONPointsList) :
              IF LJSONPointsList[k].some
              THEN \A d \in 1..2 :
                      pointcloud.points[k][d] =
                          Float(LJSONPointsList[k].val[d].num)
              ELSE Len(pointcloud.points[k]) = 2
                   /\ AllNaN(pointcloud.points[k])
\* C5 amended: when every point is a list of the same length, parsing the
\* points succeeds, their number and order are kept, and each coordinate
\* that is JSON null becomes nan while every other coordinate keeps its
\* value (so a point given as [null, null] is nan in every coordinate); a
\* JSON null standing for a whole point makes the parse raise TypeError and
\* no result is produced.
C5_NullCoordinatesBecomeNaN ==
    ((LJSONVersioned(1) \/ LJSONVersioned(2)) /\ Terminated) =>
        /\ LJSONHasNullPoint =>
              /\ pc = "raised"
              /\ error.type = "TypeError"
              /\ pointcloud = NoPointcloud
        /\ (LJSONUniform /\ LJSONMasksInRange) => pc = "done"
        /\ (LJSONUniform /\ pc = "done") =>
              /\ Len(pointcloud.points) = Len(LJSONPointsList)
              /\ \A k \in 1..Len(LJSONPointsList) :
                    /\ Len(pointcloud.points[k]) = Len(LJSONPointsList[k].val)
                    /\ \A d \in 1..Len(LJSONPointsList[k].val) :
                          pointcloud.points[k][d] =
                              IF LJSONPointsList[k].val[d].null THEN NaN
                              ELSE Float(LJSONPointsList[k].val[d].num)
\* a v2 document whose second point is [null, null] and whose first is finite
C5_Witness ==
    /\ LJSONVersioned(2) /\ pc = "done" /\ LJSONUniform
    /\ Len(LJSONPointsList) = 2
    /\ LJSONPointsList[1] = Some(<<JNum(1), JNum(2)>>)
    /\ LJSONPointsList[2] = Some(<<JNull, JNull>>)
    /\ pointcloud.points = <<<<Float(1), Float(2)>>, <<NaN, NaN>>>>

\* the connectivity of v1 group g, or none
LJSONGroupConn(g) ==
    IF file.groups[g].connectivity.some THEN file.groups[g].connectivity.val
    ELSE <<>>
LJSONShifted(g) ==
    [i \in 1..Len(LJSONGroupConn(g)) |->
        <<LJSONGroupConn(g)[i][1] + LJSONGroupOffset(g),
          LJSONGroupConn(g)[i][2] + LJSONGroupOffset(g)>>]

\* C6: for v2 the edge list handed to the constructor is the document's
\* landmarks.connectivity, unchanged; for v1 it is the concatenation, in
\* group order, of each group's connectivity pairs with both indices
\* increased by the number of landmarks in all preceding groups, a group
\* without connectivity contributing nothing.
C6_LJSONEdges ==
    /\ (LJSONVersioned(2) /\ pc = "done") =>
          pointcloud.edges = file.landmarks.connectivity
    /\ (LJSONVersioned(1) /\ pc = "done") =>
          pointcloud.edges =
              Concat([g \in 1..Len(file.groups) |-> LJSONShifted(g)],
                     Len(file.groups))
\* two v1 groups with connectivity, the first of two landmarks
C6_Witness ==
    /\ LJSONVersioned(1) /\ pc = "done"
    /\ Len(file.groups) = 2
    /\ LJSONGroupLen(1) = 2 /\ LJSONGroupLen(2) = 2
    /\ LJSONGroupConn(1) # <<>> /\ LJSONGroupConn(2) # <<>>
    /\ pointcloud.edges = <<<<0, 1>>, <<2, 3>>>>

Masks == pointcloud.labels
NPoints == Len(pointcloud.points)
MasksDisjoint ==
    \A a, b \in 1..Len(Masks) : \A i \in 1..NPoints :
        a # b => ~(Masks[a].value[i] /\ Masks[b].value[i])
MasksCover == \A i \in 1..NPoints : \E a \in 1..Len(Masks) : Masks[a].value[i]
\* the last v1 group / v2 labels entry that carries a label
LastGroupOf(label) ==
    CHOOSE g \in 1..Len(file.groups) :
        /\ file.groups[g].label = label
        /\ \A h \in (g + 1)..Len(file.groups) : file.groups[h].label # label
LastEntryOf(label) ==
    CHOOSE a \in 1..Len(file.labels) :
        /\ file.labels[a].label = label
        /\ \A h \in (a + 1)..Len(file.labels) : file.labels[h].label # label
OnSlice(mask, g) ==
    \A i \in 1..Len(mask) :
        mask[i] <=> (/\ LJSONGroupOffset(g) <= i - 1
                     /\ i - 1 < LJSONGroupOffset(g) + LJSONGroupLen(g))
OnIndices(mask, indices) ==
    \A i \in 1..Len(mask) :
        mask[i] <=> \E k \in 1..Len(indices) : indices[k] = i - 1

Complete(pcl) ==
    /\ pcl.kind \in {"LandmarkGroup", "PointCloud"}
    /\ \A a \in 1..Len(pcl.labels) :
          Len(pcl.labels[a].value) = Len(pcl.points)
    /\ \A i \in 1..Len(pcl.points) : pcl.points[i] # <<>>
LM2Body == SelectLines(file)

\* C8: a parse either sets the pointcloud to a complete result or raises
\* and leaves it unset; an LM2 file whose marker line is not 'Labels:' or
\* not '2D Image coordinates:' raises an error naming that line, an LJSON
\* document whose version is neither 1 nor 2 raises an error naming the
\* filepath and the version, and neither produces a result.
C8_FailureAtomicity ==
    /\ pointcloud # NoPointcloud =>
          pc = "done" /\ error = NoError /\ Complete(pointcloud)
    /\ pc = "done" => pointcloud # NoPointcloud /\ error = NoError
    /\ pc = "raised" => pointcloud = NoPointcloud /\ error # NoError
    /\ ~Terminated => pointcloud = NoPointcloud /\ error = NoError
    /\ (importer = "LM2" /\ Terminated /\ LM2Body[2] # <<"Labels:">>) =>
          pc = "raised" /\ error = Raise("ValueError", LM2Body[2])
    /\ (/\ importer = "LM2" /\ Terminated /\ LM2Body[2] = <<"Labels:">>
        /\ Len(LM2Body) >= 3 + LM2Declared
        /\ LM2Body[3 + LM2Declared] # <<"2D", "Image", "coordinates:">>) =>
          pc = "raised"
          /\ error = Raise("ValueError", LM2Body[3 + LM2Declared])
    /\ (/\ importer = "LJSON" /\ Terminated /\ file.wellformed
        /\ file.version \notin {Some(1), Some(2)}) =>
          pc = "raised"
          /\ error = Raise("ValueError",
                           <<LJSONFilepath, VersionStr(file.version)>>)
\* an LJSON document of version 3 was refused
C8_Witness ==
    /\ importer = "LJSON" /\ pc = "raised" /\ file.version = Some(3)
    /\ error = Raise("ValueError", <<"lms.ljson", "3">>)
    /\ pointcloud = NoPointcloud

\* C9 as claimed, for a parse that fails: when a parse call has ended with
\* an error, the file handle it opened is closed.
C9_HandleClosedAtExit == pc = "raised" => handle = "closed"
====
